---- MODULE Spec2Model ----
(***************************************************************************)
(* Model of the RoboFleet telemetry relay: the session table              *)
(* (database.py), the telemetry link pub_robot_status, the planning-state *)
(* handler handle_planning_state, pub_lidar_points, the supervisor         *)
(* pub_robot_status_manager (redis_server.py) and the lifespan's shutdown *)
(* (fastapi_edge.py).                                                      *)
(*                                                                         *)
(* Conventions.  Python None is None (-1) for integers and the empty      *)
(* tuple for tuples; a dict is a record whose absent keys hold Absent.    *)
(* An f-string is the tuple of its parts.  One action is one stretch of   *)
(* code between two suspension points that matter to another task; NOW()  *)
(* is read once per action.                                                *)
(***************************************************************************)
EXTENDS Integers, Sequences, FiniteSets, TLC

\* ------------------------------------------------------------------ bounds
NumRobots == 2
MaxTime == 2
MaxRows == 5
MaxEvents == 5
MaxRestartEvents == 26
MaxCoord == 4

\* --------------------------------------------------------------- constants
None == -1
Absent == "absent"

Robots == 1..NumRobots
Reasons == {<<"normal">>, <<"server_shutdown">>}

\* the serial number pub_robot_status_manager looks up, and the id it has
SerialNumber == "2682406203417T7"
MonitoredRobot == 1
RobotTaskKey == "robot:1:current_task"

TaskIds == 1..2
Poses == {<<0, 0>>, <<3, 4>>}
MoveStates == {"moving", "succeeded", "failed", "cancelled"}
TransportErrors == {"ConnectionClosed", "WebSocketException", "OSError", "TimeoutError"}
\* the transport errors an open connection's recv() ends with (its 5 s timeout
\* is caught inside the loop, line 149)
RecvErrors == {"ConnectionClosed", "WebSocketException", "OSError"}
\* what may go wrong with the stores while one action runs: nothing, every
\* database call fails, the first database call fails, every broker call fails
Faults == {"none", "db", "db_once", "redis"}
\* distances are kept in thousandths
DistanceScale == 1000
Channels == {"robot:status", "robot:pose", "robot:task_completed",
             "robot:task_failed", "robot:task_cancelled", "robot:lidar"}
RedisKeys == {"robot:status", "robot:last_poi", "robot:state", "robot:battery",
              "robot:planning_state", "robot:current_task_id", RobotTaskKey}

VARIABLES
    robot_sessions,   \* table robot_sessions: sequence of rows, in insertion order
    now,              \* the database clock NOW()
    db_call,          \* the last direct call of the session API and what it returned
    robots,           \* table robots: the registered serial numbers
    tasks_history,    \* table tasks_history: task_id -> row
    robot_movement,   \* table robot_movement: sequence of samples
    redis,            \* the broker's keys
    published,        \* per channel: how many messages were published, and the last
    task_updates,     \* how often update_task_status(task_id, status) was called
    shutdown_event,   \* the process-wide shutdown flag
    active_sessions,  \* dict robot_id -> session_id
    mgr,              \* pub_robot_status_manager: pc, robot_id, restart_count, wait_time
    link_pc,          \* pub_robot_status: where it stands
    link,             \* pub_robot_status: its locals
    mon_pc,           \* monitor_planning_state: where it stands
    lidar_pc,         \* pub_lidar_points: where it stands
    lifespan,         \* the lifespan's shutdown: where it stands, sessions to clean up
    epoch,            \* history: the connection epoch and what happened in it
    budget            \* how many more events the environment may deliver

dbvars == <<robot_sessions, now, db_call>>
progvars == <<robots, tasks_history, robot_movement, redis, published, task_updates,
              shutdown_event, active_sessions, mgr, link_pc, link, mon_pc, lidar_pc,
              lifespan, epoch, budget>>
vars == <<dbvars, progvars>>

\* --------------------------------------------------- robot_sessions table
\* SELECT ... WHERE robot_id = $1 AND status = 'online'
OnlineRows(rows, robot_id) ==
    {i \in 1..Len(rows) : rows[i].robot_id = robot_id /\ rows[i].status = "online"}

\* ... ORDER BY timestamp DESC LIMIT 1: a row of the greatest timestamp
\* (rows of equal timestamp: the one inserted last), or None
LastOnline(rows, robot_id) ==
    LET S == OnlineRows(rows, robot_id) IN
    IF S = {} THEN None
    ELSE CHOOSE i \in S : \A j \in S :
            \/ rows[j].timestamp < rows[i].timestamp
            \/ (rows[j].timestamp = rows[i].timestamp /\ j <= i)

\* INSERT INTO robot_sessions ... that leaves session_duration out
InsertSessionNoDuration(rows, robot_id, status, t, duration, notes) ==
    Append(rows, [id |-> Len(rows) + 1, robot_id |-> robot_id, status |-> status,
                  timestamp |-> t, session_duration |-> None, notes |-> notes])

\* INSERT INTO robot_sessions ...: the serial id is the next one
InsertSession(rows, robot_id, status, t, duration, notes) ==
    Append(rows, [id |-> Len(rows) + 1, robot_id |-> robot_id, status |-> status,
                  timestamp |-> t, session_duration |-> duration, notes |-> notes])

\* start_robot_session(robot_id): the table afterwards and the returned id
start_robot_session(rows, robot_id, t) ==
    LET unclosed == LastOnline(rows, robot_id)
        closed == IF unclosed # None
                  THEN InsertSession(rows, robot_id, "offline", t,
                                     t - rows[unclosed].timestamp,
                                     <<"Auto-closed: New session started">>)
                  ELSE rows
    IN  [rows |-> InsertSession(closed, robot_id, "online", t, None, <<>>),
         ret |-> Len(closed) + 1]

\* end_robot_session(robot_id, reason): the table afterwards and the returned
\* id, None when no online row is found.  The note is f"Disconnected: {reason}".
end_robot_session(rows, robot_id, reason, t) ==
    LET last_online == LastOnline(rows, robot_id) IN
    IF last_online = None
    THEN [rows |-> rows, ret |-> None]
    ELSE [rows |-> InsertSession(rows, robot_id, "offline", t,
                                 t - rows[last_online].timestamp,
                                 <<"Disconnected">> \o reason),
          ret |-> Len(rows) + 1]

\* ------------------------------------------------------------ tasks_history
\* update_task_status(task_id, status, fail_reason): UPDATE ... WHERE task_id = $n;
\* the note is written only for a truthy fail_reason
update_task_status(tasks, task_id, status, fail_reason) ==
    IF task_id \notin DOMAIN tasks \/ tasks[task_id].status = "none"
    THEN tasks
    ELSE [tasks EXCEPT ![task_id] =
            [status |-> status,
             notes |-> IF fail_reason # Absent /\ fail_reason # ""
                       THEN <<"Failed", fail_reason>> ELSE @.notes]]

\* one more call of update_task_status(task_id, status) in the call count
CountUpdate(counts, task_id, status) ==
    [counts EXCEPT ![<<task_id, status>>] = @ + 1]

\* ------------------------------------------------------------------ broker
\* redis.publish(channel, payload)
Publish(pub, channel, payload) ==
    [pub EXCEPT ![channel] = [count |-> @.count + 1, last |-> <<payload>>]]

\* start_redis_status that ignores stat and always reports online
start_redis_status_online(kv, stat) ==
    [kv EXCEPT !["robot:status"] = "online", !["robot:last_poi"] = "origin"]

\* start_redis_status(redis, stat)
start_redis_status(kv, stat) ==
    [kv EXCEPT !["robot:status"] = IF stat THEN "online" ELSE "offline",
               !["robot:last_poi"] = "origin"]

\* -------------------------------------------------------------- frames
\* an inbound frame: the text of a JSON object and what json.loads makes of it
Frame(topic, percentage, pos, pos_numeric, move_state, fail_reason_str) ==
    [json_ok |-> TRUE, topic |-> topic, percentage |-> percentage, pos |-> pos,
     pos_numeric |-> pos_numeric, ori |-> 0, move_state |-> move_state,
     fail_reason_str |-> fail_reason_str]

BatteryFrames == {Frame("/battery_state", 80, <<>>, TRUE, Absent, Absent)}
PoseFrames ==
    {Frame("/tracked_pose", None, p, TRUE, Absent, Absent) : p \in Poses}
\* a pose frame whose coordinates float() rejects
BadPoseFrames == {Frame("/tracked_pose", None, <<0, 0>>, FALSE, Absent, Absent)}
PlanningFrames ==
    {Frame("/planning_state", None, <<>>, TRUE, m, Absent) : m \in MoveStates}
        \cup {Frame("/planning_state", None, <<>>, TRUE, "failed", "blocked")}
\* text that json.loads rejects
NotJsonFrames ==
    {[Frame(Absent, None, <<>>, TRUE, Absent, Absent) EXCEPT !.json_ok = FALSE]}
MalformedFrames == NotJsonFrames \cup BadPoseFrames
LinkFrames == BatteryFrames \cup PoseFrames \cup PlanningFrames \cup MalformedFrames

\* ------------------------------------------------- handle_planning_state
\* the event published on robot:task_completed / _failed / _cancelled
TaskEvent(task_id, status, reason) ==
    [task_id |-> task_id, status |-> status, reason |-> reason]

\* a handler that publishes a completion event for whatever it receives
handle_planning_state_always_publishes(w, data) ==
    [w EXCEPT !.redis["robot:planning_state"] = <<data>>,
              !.pub = Publish(w.pub, "robot:task_completed",
                              TaskEvent(w.redis["robot:current_task_id"],
                                        "completed", Absent))]

\* handle_planning_state(redis, data) on the broker and the task table
\* w = [redis, tasks, pub, upd]; the result is w afterwards
handle_planning_state(w, data) ==
    LET move_state == data.move_state
        fail_reason == IF data.fail_reason_str = Absent THEN "none"
                       ELSE data.fail_reason_str
        kv == [w.redis EXCEPT !["robot:planning_state"] = <<data>>]
        current_task_id == kv["robot:current_task_id"]
    IN
    IF current_task_id = None THEN [w EXCEPT !.redis = kv]
    ELSE CASE move_state = "moving" ->
                [w EXCEPT !.redis = [kv EXCEPT !["robot:status"] = "active",
                                               !["robot:state"] = "moving"]]
           [] move_state = "succeeded" ->
                [redis |-> [kv EXCEPT !["robot:status"] = "idle",
                                      !["robot:state"] = "idle"],
                 tasks |-> update_task_status(w.tasks, current_task_id, "completed", Absent),
                 upd |-> CountUpdate(w.upd, current_task_id, "completed"),
                 pub |-> Publish(w.pub, "robot:task_completed",
                                 TaskEvent(current_task_id, "completed", Absent))]
           [] move_state = "failed" ->
                [redis |-> [kv EXCEPT !["robot:status"] = "error",
                                      !["robot:state"] = "failed",
                                      !["robot:current_task_id"] = None],
                 tasks |-> update_task_status(w.tasks, current_task_id, "failed", fail_reason),
                 upd |-> CountUpdate(w.upd, current_task_id, "failed"),
                 pub |-> Publish(w.pub, "robot:task_failed",
                                 TaskEvent(current_task_id, "failed", fail_reason))]
           [] move_state = "cancelled" ->
                [redis |-> [kv EXCEPT !["robot:status"] = "idle",
                                      !["robot:state"] = "cancelled",
                                      !["robot:current_task_id"] = None],
                 tasks |-> update_task_status(w.tasks, current_task_id, "cancelled", Absent),
                 upd |-> CountUpdate(w.upd, current_task_id, "cancelled"),
                 pub |-> Publish(w.pub, "robot:task_cancelled",
                                 TaskEvent(current_task_id, "cancelled", Absent))]
           [] OTHER -> [w EXCEPT !.redis = kv]

World == [redis |-> redis, tasks |-> tasks_history, pub |-> published,
          upd |-> task_updates]

SetWorld(w) ==
    /\ redis' = w.redis
    /\ tasks_history' = w.tasks
    /\ published' = w.pub
    /\ task_updates' = w.upd

\* ---------------------------------------------------------- robot_movement
RECURSIVE SqrtBetween(_, _, _)
\* the greatest r in lo..hi with r * r <= n
SqrtBetween(n, lo, hi) ==
    IF lo >= hi THEN lo
    ELSE LET mid == (lo + hi + 1) \div 2 IN
         IF mid * mid <= n THEN SqrtBetween(n, mid, hi)
         ELSE SqrtBetween(n, lo, mid - 1)

\* math.sqrt(n), in thousandths, rounded down
Sqrt(n) ==
    LET whole == SqrtBetween(n, 0, n) IN
    SqrtBetween(n * DistanceScale * DistanceScale, whole * DistanceScale,
                (whole + 1) * DistanceScale)

\* the city-block distance in place of the Euclidean one
calculate_distance_manhattan(x1, y1, x2, y2) ==
    DistanceScale * ((IF x2 >= x1 THEN x2 - x1 ELSE x1 - x2)
                     + (IF y2 >= y1 THEN y2 - y1 ELSE y1 - y2))

\* calculate_distance(x1, y1, x2, y2)
calculate_distance(x1, y1, x2, y2) ==
    Sqrt((x2 - x1) * (x2 - x1) + (y2 - y1) * (y2 - y1))

\* record_position(robot_id, x, y, ori, prev_x, prev_y): the table afterwards
record_position(moves, robot_id, x, y, ori, prev_x, prev_y, t) ==
    LET distance == IF prev_x # None /\ prev_y # None
                    THEN calculate_distance(prev_x, prev_y, x, y)
                    ELSE 0
    IN  Append(moves, [time |-> t, robot_id |-> robot_id, x |-> x, y |-> y,
                       ori |-> ori, distance |-> distance])

\* ------------------------------------------------------- pub_robot_status
\* does the k-th database call of an action fail under this fault
DbFails(fault, k) == fault = "db" \/ (fault = "db_once" /\ k = 1)
RedisFails(fault) == fault = "redis"

\* what pub_robot_status reads and writes:
\* s = [rows, redis, pub, upd, tasks, moves, act, link]
\* active_sessions.pop(robot_id, None)
PopSession(act, robot_id) == [r \in DOMAIN act \ {robot_id} |-> act[r]]

\* lines 106-111: a /battery_state frame
OnBattery(s, f, fault) ==
    LET cl == [s.link.compile_list EXCEPT !.battery = <<f>>]
        s1 == [s EXCEPT !.link.compile_list = cl]
    IN  IF RedisFails(fault) THEN [s |-> s1, exc |-> "RedisError", dbcalls |-> 0]
        ELSE [s |-> [s1 EXCEPT !.redis["robot:battery"] = <<cl>>,
                               !.pub = Publish(s1.pub, "robot:status", cl)],
              exc |-> Absent, dbcalls |-> 0]

\* lines 113-131: a /tracked_pose frame
OnPose(s, f, fault, robot_id, t) ==
    IF Len(f.pos) < 2 THEN [s |-> s, exc |-> Absent, dbcalls |-> 0]
    ELSE IF ~f.pos_numeric THEN [s |-> s, exc |-> "ValueError", dbcalls |-> 0]
    ELSE IF DbFails(fault, 1) THEN [s |-> s, exc |-> "PostgresError", dbcalls |-> 1]
    ELSE
        LET x == f.pos[1]
            y == f.pos[2]
            prev_pose == s.link.prev_pose
            moves == record_position(s.moves, robot_id, x, y, f.ori,
                                     IF prev_pose # <<>> THEN prev_pose[1] ELSE None,
                                     IF prev_pose # <<>> THEN prev_pose[2] ELSE None, t)
            cl == [s.link.compile_list EXCEPT !.pose = <<f>>]
            s1 == [s EXCEPT !.moves = moves, !.link.prev_pose = <<x, y>>,
                            !.link.compile_list = cl]
        IN  IF RedisFails(fault) THEN [s |-> s1, exc |-> "RedisError", dbcalls |-> 1]
            ELSE [s |-> [s1 EXCEPT !.pub = Publish(s1.pub, "robot:pose", cl)],
                  exc |-> Absent, dbcalls |-> 1]

\* lines 133-147: a /planning_state frame
OnPlanning(s, f, fault) ==
    LET move_state == f.move_state
        task_id == s.redis[RobotTaskKey]
        status == IF move_state = "succeed" THEN "completed" ELSE "failed"
    IN
    IF RedisFails(fault) THEN [s |-> s, exc |-> "RedisError", dbcalls |-> 0]
    ELSE IF move_state \in {"succeed", "failed"} /\ task_id # None
    THEN IF DbFails(fault, 1) THEN [s |-> s, exc |-> "PostgresError", dbcalls |-> 1]
         ELSE [s |-> [s EXCEPT !.tasks = update_task_status(s.tasks, task_id, status, Absent),
                               !.upd = CountUpdate(s.upd, task_id, status),
                               !.redis[RobotTaskKey] = None],
               exc |-> Absent, dbcalls |-> 1]
    ELSE [s |-> s, exc |-> Absent, dbcalls |-> 0]

\* lines 103-147: one received frame; exc names the exception it ends with
ProcessFrame(s, f, fault, robot_id, t) ==
    IF ~f.json_ok THEN [s |-> s, exc |-> "JSONDecodeError", dbcalls |-> 0]
    ELSE CASE f.topic = "/battery_state" -> OnBattery(s, f, fault)
           [] f.topic = "/tracked_pose" /\ robot_id # None -> OnPose(s, f, fault, robot_id, t)
           [] f.topic = "/planning_state" -> OnPlanning(s, f, fault)
           [] OTHER -> [s |-> s, exc |-> Absent, dbcalls |-> 0]

\* lines 152-180: the handler of a transport error; dbcalls database calls were
\* made before it.  pc is where pub_robot_status stands afterwards.
TransportHandler(s, e, fault, dbcalls, robot_id, t, shutdown) ==
    LET s1 == [s EXCEPT !.link.connection_lost_logged = TRUE]
        after == IF shutdown THEN "outer_check" ELSE "reconnect_wait"
        delay == IF shutdown THEN s.link.reconnect_delay ELSE 5
    IN
    IF s.link.session_id = None \/ s.link.session_id = 0
    THEN [s |-> [s1 EXCEPT !.link.reconnect_delay = delay], pc |-> after]
    ELSE IF DbFails(fault, dbcalls + 1) THEN [s |-> s1, pc |-> "raised"]
    ELSE
        LET ended == end_robot_session(s.rows, robot_id, <<"Connection_lost", e>>, t)
            s2 == [s1 EXCEPT !.rows = ended.rows]
            cl == [s.link.compile_list EXCEPT !.status = "offline"]
        IN  IF RedisFails(fault) THEN [s |-> s2, pc |-> "raised"]
            ELSE [s |-> [s2 EXCEPT !.redis = start_redis_status(s.redis, FALSE),
                                   !.link.compile_list = cl,
                                   !.pub = Publish(s.pub, "robot:status", cl),
                                   !.act = PopSession(s.act, robot_id),
                                   !.link.session_id = None,
                                   !.link.reconnect_delay = delay],
                  pc |-> after]

\* lines 182-192: the handler of any other exception
UnexpectedHandler(s, e, fault, dbcalls, robot_id, t) ==
    IF s.link.session_id = None \/ s.link.session_id = 0
    THEN [s |-> s, pc |-> "sleep"]
    ELSE IF DbFails(fault, dbcalls + 1) THEN [s |-> s, pc |-> "raised"]
    ELSE [s |-> [s EXCEPT !.rows = end_robot_session(s.rows, robot_id,
                                        <<"unexpected_error", e>>, t).rows,
                          !.act = PopSession(s.act, robot_id),
                          !.link.session_id = None],
          pc |-> "sleep"]

\* lines 194-198: after the loop
FinalBlock(s, fault, robot_id, t) ==
    IF s.link.session_id = None \/ s.link.session_id = 0
    THEN [s |-> s, pc |-> "returned"]
    ELSE IF DbFails(fault, 1) THEN [s |-> s, pc |-> "raised"]
    ELSE
        LET s1 == [s EXCEPT !.rows = end_robot_session(s.rows, robot_id,
                                         <<"server_shutdown">>, t).rows]
        IN  IF RedisFails(fault) THEN [s |-> s1, pc |-> "raised"]
            ELSE [s |-> [s1 EXCEPT !.redis = start_redis_status(s.redis, FALSE),
                                   !.act = PopSession(s.act, robot_id)],
                  pc |-> "returned"]

\* lines 88-98: the connection is open
OnConnected(s, fault, robot_id, t) ==
    IF s.link.session_id # None THEN [s |-> s, exc |-> Absent, dbcalls |-> 0]
    ELSE IF DbFails(fault, 1) THEN [s |-> s, exc |-> "PostgresError", dbcalls |-> 1]
    ELSE
        LET started == start_robot_session(s.rows, robot_id, t)
            s1 == [s EXCEPT !.rows = started.rows,
                            !.link.session_id = started.ret,
                            !.act = (robot_id :> started.ret) @@ s.act]
        IN  IF RedisFails(fault) THEN [s |-> s1, exc |-> "RedisError", dbcalls |-> 1]
            ELSE [s |-> [s1 EXCEPT !.redis = start_redis_status(s.redis, TRUE),
                                   !.link.connection_lost_logged = FALSE],
                  exc |-> Absent, dbcalls |-> 1]

\* ------------------------------------------------------------ initial state
InitTables ==
    /\ robot_sessions = <<>>
    /\ now = 0
    /\ db_call = [flip |-> 0, op |-> "none", robot_id |-> None, ret |-> None,
                  last |-> [r \in Robots |-> "none"]]
    /\ tasks_history = [t \in TaskIds |-> [status |-> "none", notes |-> <<>>]]
    /\ robot_movement = <<>>
    /\ redis = [k \in RedisKeys |->
                  CASE k \in {"robot:status", "robot:last_poi", "robot:state"} -> Absent
                    [] k \in {"robot:battery", "robot:planning_state"} -> <<>>
                    [] OTHER -> None]
    /\ published = [c \in Channels |-> [count |-> 0, last |-> <<>>]]
    /\ task_updates = [c \in TaskIds \X {"completed", "failed", "cancelled"} |-> 0]

\* the locals of pub_robot_status as lines 78-81 set them
LinkLocals ==
    [compile_list |-> [battery |-> <<>>, pose |-> <<>>, status |-> Absent],
     prev_pose |-> <<>>,
     session_id |-> None,
     connection_lost_logged |-> FALSE,
     reconnect_delay |-> None]

InitTasks ==
    /\ shutdown_event = FALSE
    /\ active_sessions = <<>>
    /\ mgr = [pc |-> "lookup", robot_id |-> None, restart_count |-> 0, wait_time |-> None]
    /\ link_pc = "idle"
    /\ link = LinkLocals
    /\ mon_pc = "connecting"
    /\ lidar_pc = "connecting"
    /\ lifespan = [pc |-> "serving", todo |-> {}]
    /\ epoch = [n |-> 0, samples |-> 0, lost_session |-> None, attempts |-> 0,
                timed_out |-> FALSE]

\* ------------------------------------------------ the session API, called freely
InitDb ==
    /\ InitTables
    /\ InitTasks
    /\ robots = {}
    /\ budget = 0

\* time passes
Tick ==
    /\ now < MaxTime
    /\ now' = now + 1
    /\ UNCHANGED <<robot_sessions, db_call, progvars>>

CallStartSession(r) ==
    LET res == start_robot_session(robot_sessions, r, now) IN
    /\ Len(res.rows) <= MaxRows
    /\ robot_sessions' = res.rows
    /\ db_call' = [flip |-> 1 - db_call.flip, op |-> "start", robot_id |-> r,
                   ret |-> res.ret, last |-> [db_call.last EXCEPT ![r] = "start"]]
    /\ UNCHANGED <<now, progvars>>

CallEndSession(r, reason) ==
    LET res == end_robot_session(robot_sessions, r, reason, now) IN
    /\ Len(res.rows) <= MaxRows
    /\ robot_sessions' = res.rows
    /\ db_call' = [flip |-> 1 - db_call.flip, op |-> "end", robot_id |-> r,
                   ret |-> res.ret, last |-> [db_call.last EXCEPT ![r] = "end"]]
    /\ UNCHANGED <<now, progvars>>

NextDb ==
    \/ Tick
    \/ \E r \in Robots : CallStartSession(r)
    \/ \E r \in Robots, reason \in Reasons : CallEndSession(r, reason)

SpecDb == InitDb /\ [][NextDb]_vars

\* ------------------------------------------------ record_position, called freely
\* coordinates are kept non-negative, None being -1; the differences still
\* take both signs
Coords == 0..MaxCoord
\* the previous pose pub_robot_status holds: None or a pair
PrevPoses == {<<>>} \cup (Coords \X Coords)

InitDist ==
    /\ InitTables
    /\ shutdown_event = FALSE
    /\ active_sessions = <<>>
    /\ mgr = [pc |-> "lookup", robot_id |-> None, restart_count |-> 0, wait_time |-> None]
    /\ link_pc = "idle"
    /\ link \in {[LinkLocals EXCEPT !.prev_pose = p] : p \in PrevPoses}
    /\ mon_pc = "connecting"
    /\ lidar_pc = "connecting"
    /\ lifespan = [pc |-> "serving", todo |-> {}]
    /\ epoch = [n |-> 0, samples |-> 0, lost_session |-> None, attempts |-> 0,
                timed_out |-> FALSE]
    /\ robots = {}
    /\ budget = 1

\* lines 120-127: record_position with the previous pose, None when there is none
CallRecordPosition(x, y) ==
    LET prev_pose == link.prev_pose IN
    /\ budget > 0
    /\ budget' = budget - 1
    /\ robot_movement' =
          record_position(robot_movement, MonitoredRobot, x, y, 0,
                          IF prev_pose # <<>> THEN prev_pose[1] ELSE None,
                          IF prev_pose # <<>> THEN prev_pose[2] ELSE None, now)
    /\ UNCHANGED <<dbvars, robots, lidar_pc, lifespan, tasks_history, redis,
                   published, task_updates, shutdown_event, active_sessions, mgr,
                   link_pc, link, mon_pc, epoch>>

NextDist == \E x \in Coords, y \in Coords : CallRecordPosition(x, y)

SpecDist == InitDist /\ [][NextDist]_vars

\* ------------------------------------------------------ the running program
Init ==
    /\ InitTables
    /\ InitTasks
    /\ robots \in {{}, {[sn |-> SerialNumber, id |-> MonitoredRobot]}}
    /\ budget = MaxEvents

LinkState ==
    [rows |-> robot_sessions, redis |-> redis, pub |-> published, upd |-> task_updates,
     tasks |-> tasks_history, moves |-> robot_movement, act |-> active_sessions,
     link |-> link]

SetLinkState(s) ==
    /\ robot_sessions' = s.rows
    /\ redis' = s.redis
    /\ published' = s.pub
    /\ task_updates' = s.upd
    /\ tasks_history' = s.tasks
    /\ robot_movement' = s.moves
    /\ active_sessions' = s.act
    /\ link' = s.link

\* signal_handler: the flag is set
Shutdown ==
    /\ ~shutdown_event
    /\ shutdown_event' = TRUE
    /\ UNCHANGED <<dbvars, robots, lidar_pc, lifespan, tasks_history, robot_movement,
                   redis, published, task_updates, active_sessions, mgr, link_pc,
                   link, mon_pc, epoch, budget>>

\* the dispatcher creates a task (create_task) and makes it the current one
Dispatch(keys) ==
    /\ budget > 0
    /\ \E t \in TaskIds :
        /\ tasks_history[t].status = "none"
        /\ \A u \in TaskIds : u < t => tasks_history[u].status # "none"
        /\ tasks_history' = [tasks_history EXCEPT ![t].status = "in_progress"]
        /\ redis' = [k \in RedisKeys |-> IF k \in keys THEN t ELSE redis[k]]
    /\ budget' = budget - 1
    /\ UNCHANGED <<dbvars, robots, lidar_pc, lifespan, robot_movement, published,
                   task_updates, shutdown_event, active_sessions, mgr, link_pc, link,
                   mon_pc, epoch>>

\* ---- monitor_planning_state
MonitorConnect ==
    /\ mon_pc = "connecting"
    /\ mon_pc' = "recv"
    /\ UNCHANGED <<dbvars, robots, lidar_pc, lifespan, tasks_history, robot_movement,
                   redis, published, task_updates, shutdown_event, active_sessions,
                   mgr, link_pc, link, epoch, budget>>

\* a frame arrives on the monitor's connection (lines 211-215)
MonitorFrame(data) ==
    /\ mon_pc = "recv"
    /\ budget > 0
    /\ budget' = budget - 1
    /\ IF data.json_ok
       THEN /\ SetWorld(IF data.topic = "/planning_state"
                        THEN handle_planning_state(World, data) ELSE World)
            /\ mon_pc' = mon_pc
       ELSE /\ mon_pc' = "done"
            /\ UNCHANGED <<redis, tasks_history, published, task_updates>>
    /\ UNCHANGED <<dbvars, robots, lidar_pc, lifespan, robot_movement, shutdown_event,
                   active_sessions, mgr, link_pc, link, epoch>>

\* ---- pub_lidar_points
\* lines 314-317
LidarConnect ==
    /\ lidar_pc = "connecting"
    /\ lidar_pc' = "recv"
    /\ UNCHANGED <<dbvars, robots, tasks_history, robot_movement, redis, published,
                   task_updates, shutdown_event, active_sessions, mgr, link_pc, link,
                   mon_pc, lifespan, epoch, budget>>

\* lines 320-321: a frame arrives and is published as it is
LidarFrame ==
    /\ lidar_pc = "recv"
    /\ budget > 0
    /\ budget' = budget - 1
    /\ published' = Publish(published, "robot:lidar", "scan_matched_points2")
    /\ UNCHANGED <<dbvars, robots, lidar_pc, tasks_history, robot_movement, redis,
                   task_updates, shutdown_event, active_sessions, mgr, link_pc, link,
                   mon_pc, lifespan, epoch>>

\* ---- pub_robot_status
\* line 85: the outer loop's condition, and lines 194-198 after the loop
LinkOuterCheck(fault) ==
    /\ link_pc = "outer_check"
    /\ IF shutdown_event
       THEN LET r == FinalBlock(LinkState, fault, mgr.robot_id, now) IN
            /\ SetLinkState(r.s)
            /\ link_pc' = r.pc
       ELSE /\ fault = "none"
            /\ link_pc' = "connecting"
            /\ UNCHANGED <<robot_sessions, redis, published, task_updates,
                           tasks_history, robot_movement, active_sessions, link>>
    /\ UNCHANGED <<now, db_call, robots, lidar_pc, lifespan, shutdown_event, mgr,
                   mon_pc, epoch, budget>>

\* line 87 succeeds, lines 88-98 run
LinkConnected(fault) ==
    /\ link_pc = "connecting"
    /\ budget > 0
    /\ budget' = budget - 1
    /\ LET c == OnConnected(LinkState, fault, mgr.robot_id, now)
           h == UnexpectedHandler(c.s, c.exc, fault, c.dbcalls, mgr.robot_id, now)
       IN  IF c.exc = Absent
           THEN SetLinkState(c.s) /\ link_pc' = "inner_check"
           ELSE SetLinkState(h.s) /\ link_pc' = h.pc
    /\ epoch' = [epoch EXCEPT !.n = @ + 1, !.samples = 0, !.attempts = 0,
                              !.timed_out = FALSE]
    /\ UNCHANGED <<now, db_call, robots, lidar_pc, lifespan, shutdown_event, mgr,
                   mon_pc>>

\* line 87 fails with a transport error; a connect that is still pending when
\* the environment has no more events ends by its open_timeout
LinkConnectFailed(e) ==
    /\ link_pc = "connecting"
    /\ budget > 0 \/ (shutdown_event /\ e = "TimeoutError")
    /\ budget' = IF budget > 0 THEN budget - 1 ELSE 0
    /\ LET h == TransportHandler(LinkState, e, "none", 0, mgr.robot_id, now,
                                 shutdown_event)
       IN  /\ SetLinkState(h.s)
           /\ link_pc' = h.pc
           /\ epoch' = [epoch EXCEPT !.attempts =
                            IF h.pc = "reconnect_wait" THEN @ + 1 ELSE @]
    /\ UNCHANGED <<now, db_call, robots, lidar_pc, lifespan, shutdown_event, mgr,
                   mon_pc>>

\* line 100: the inner loop's condition; leaving the loop closes the connection
LinkInnerCheck ==
    /\ link_pc = "inner_check"
    /\ link_pc' = IF shutdown_event THEN "outer_check" ELSE "recv"
    /\ UNCHANGED <<dbvars, robots, lidar_pc, lifespan, tasks_history, robot_movement,
                   redis, published, task_updates, shutdown_event, active_sessions,
                   mgr, link, mon_pc, epoch, budget>>

\* a receive timeout that forgets the previous pose
LinkRecvTimeoutForgetsPose ==
    /\ link_pc = "recv"
    /\ link_pc' = "inner_check"
    /\ link' = [link EXCEPT !.prev_pose = <<>>]
    /\ epoch' = [epoch EXCEPT !.timed_out = TRUE]
    /\ UNCHANGED <<dbvars, robots, lidar_pc, lifespan, tasks_history, robot_movement,
                   redis, published, task_updates, shutdown_event, active_sessions,
                   mgr, mon_pc, budget>>

\* line 102 times out after 5 s: continue
LinkRecvTimeout ==
    /\ link_pc = "recv"
    /\ link_pc' = "inner_check"
    /\ epoch' = [epoch EXCEPT !.timed_out = TRUE]
    /\ UNCHANGED <<dbvars, robots, lidar_pc, lifespan, tasks_history, robot_movement,
                   redis, published, task_updates, shutdown_event, active_sessions,
                   mgr, link, mon_pc, budget>>

\* line 102 delivers a frame, lines 103-147 process it
LinkFrame(f, fault) ==
    /\ link_pc = "recv"
    /\ budget > 0
    /\ budget' = budget - 1
    /\ LET r == ProcessFrame(LinkState, f, fault, mgr.robot_id, now)
           h == UnexpectedHandler(r.s, r.exc, fault, r.dbcalls, mgr.robot_id, now)
       IN  /\ IF r.exc = Absent
              THEN SetLinkState(r.s) /\ link_pc' = "inner_check"
              ELSE SetLinkState(h.s) /\ link_pc' = h.pc
           /\ epoch' = [epoch EXCEPT !.samples =
                            @ + Len(r.s.moves) - Len(robot_movement)]
    /\ UNCHANGED <<now, db_call, robots, lidar_pc, lifespan, shutdown_event, mgr,
                   mon_pc>>

\* line 102 fails with a transport error
LinkConnectionLost(e, fault) ==
    /\ link_pc = "recv"
    /\ budget > 0
    /\ budget' = budget - 1
    /\ LET h == TransportHandler(LinkState, e, fault, 0, mgr.robot_id, now,
                                 shutdown_event)
       IN  /\ SetLinkState(h.s)
           /\ link_pc' = h.pc
           /\ epoch' = [epoch EXCEPT
                            !.lost_session = link.session_id,
                            !.attempts = IF h.pc = "reconnect_wait" THEN @ + 1 ELSE @]
    /\ UNCHANGED <<now, db_call, robots, lidar_pc, lifespan, shutdown_event, mgr,
                   mon_pc>>

\* lines 174-180 with break where the timeout says continue
LinkReconnectTimeoutBreaks ==
    /\ link_pc = "reconnect_wait"
    /\ ~shutdown_event
    /\ link_pc' = "returned"
    /\ UNCHANGED <<dbvars, robots, lidar_pc, lifespan, tasks_history, robot_movement,
                   redis, published, task_updates, shutdown_event, active_sessions,
                   mgr, link, mon_pc, epoch, budget>>

\* lines 174-180: the 5 s wait ends by its timeout (continue)
LinkReconnectTimeout ==
    /\ link_pc = "reconnect_wait"
    /\ ~shutdown_event
    /\ link_pc' = "outer_check"
    /\ UNCHANGED <<dbvars, robots, lidar_pc, lifespan, tasks_history, robot_movement,
                   redis, published, task_updates, shutdown_event, active_sessions,
                   mgr, link, mon_pc, epoch, budget>>

\* lines 174-178: the wait ends by the shutdown flag (break), then lines 194-198
LinkReconnectShutdown(fault) ==
    /\ link_pc = "reconnect_wait"
    /\ shutdown_event
    /\ LET r == FinalBlock(LinkState, fault, mgr.robot_id, now) IN
        /\ SetLinkState(r.s)
        /\ link_pc' = r.pc
    /\ UNCHANGED <<now, db_call, robots, lidar_pc, lifespan, shutdown_event, mgr,
                   mon_pc, epoch, budget>>

\* line 192: asyncio.sleep(5) is over
LinkSleepDone ==
    /\ link_pc = "sleep"
    /\ link_pc' = "outer_check"
    /\ UNCHANGED <<dbvars, robots, lidar_pc, lifespan, tasks_history, robot_movement,
                   redis, published, task_updates, shutdown_event, active_sessions,
                   mgr, link, mon_pc, epoch, budget>>

\* ---- pub_robot_status_manager
\* get_robot_id_by_sn(sn)
get_robot_id_by_sn(table, sn) ==
    IF \E r \in table : r.sn = sn THEN (CHOOSE r \in table : r.sn = sn).id ELSE None

\* line 402 without its cap
WaitTimeUncapped(restart_count) == 5 * restart_count

\* line 402
WaitTime(restart_count) ==
    IF 5 * restart_count < 60 THEN 5 * restart_count ELSE 60

\* lines 400-412: count the restart and start waiting, or go back to line 377
Restart(m, shutdown) ==
    IF shutdown THEN [m EXCEPT !.pc = "check"]
    ELSE [m EXCEPT !.pc = "wait",
                   !.restart_count = @ + 1,
                   !.wait_time = WaitTime(m.restart_count + 1)]

\* lines 369-375 without the test of line 371
ManagerLookupUnchecked ==
    /\ mgr.pc = "lookup"
    /\ mgr' = [mgr EXCEPT !.pc = "check",
                          !.robot_id = get_robot_id_by_sn(robots, SerialNumber),
                          !.restart_count = 0]
    /\ UNCHANGED <<dbvars, robots, lidar_pc, lifespan, tasks_history, robot_movement,
                   redis, published, task_updates, shutdown_event, active_sessions,
                   link_pc, link, mon_pc, epoch, budget>>

\* lines 369-375
ManagerLookup ==
    /\ mgr.pc = "lookup"
    /\ LET robot_id == get_robot_id_by_sn(robots, SerialNumber) IN
       mgr' = IF robot_id = None \/ robot_id = 0
              THEN [mgr EXCEPT !.pc = "stopped", !.robot_id = robot_id]
              ELSE [mgr EXCEPT !.pc = "check", !.robot_id = robot_id,
                               !.restart_count = 0]
    /\ UNCHANGED <<dbvars, robots, lidar_pc, lifespan, tasks_history, robot_movement,
                   redis, published, task_updates, shutdown_event, active_sessions,
                   link_pc, link, mon_pc, epoch, budget>>

\* lines 377-380: the loop's condition, then the call of pub_robot_status
ManagerCheck ==
    /\ mgr.pc = "check"
    /\ IF shutdown_event
       THEN mgr' = [mgr EXCEPT !.pc = "stopped"] /\ UNCHANGED <<link_pc, link>>
       ELSE /\ mgr' = [mgr EXCEPT !.pc = "running"]
            /\ link_pc' = "outer_check"
            /\ link' = LinkLocals
    /\ UNCHANGED <<dbvars, robots, lidar_pc, lifespan, tasks_history, robot_movement,
                   redis, published, task_updates, shutdown_event, active_sessions,
                   mon_pc, epoch, budget>>

\* lines 380-384: pub_robot_status returned
ManagerLinkReturned ==
    /\ mgr.pc = "running"
    /\ link_pc = "returned"
    /\ link_pc' = "idle"
    /\ link' = LinkLocals
    /\ mgr' = IF shutdown_event THEN [mgr EXCEPT !.pc = "stopped"]
              ELSE Restart(mgr, shutdown_event)
    /\ UNCHANGED <<dbvars, robots, lidar_pc, lifespan, tasks_history, robot_movement,
                   redis, published, task_updates, shutdown_event, active_sessions,
                   mon_pc, epoch, budget>>

\* lines 395-412: pub_robot_status raised an exception
ManagerLinkCrashed ==
    /\ mgr.pc = "running"
    /\ link_pc = "raised"
    /\ link_pc' = "idle"
    /\ link' = LinkLocals
    /\ mgr' = Restart(mgr, shutdown_event)
    /\ UNCHANGED <<dbvars, robots, lidar_pc, lifespan, tasks_history, robot_movement,
                   redis, published, task_updates, shutdown_event, active_sessions,
                   mon_pc, epoch, budget>>

\* lines 405-412: the wait ends by its timeout (continue)
ManagerWaitTimeout ==
    /\ mgr.pc = "wait"
    /\ ~shutdown_event
    /\ mgr' = [mgr EXCEPT !.pc = "check"]
    /\ UNCHANGED <<dbvars, robots, lidar_pc, lifespan, tasks_history, robot_movement,
                   redis, published, task_updates, shutdown_event, active_sessions,
                   link_pc, link, mon_pc, epoch, budget>>

\* lines 405-410: the wait ends by the shutdown flag (break)
ManagerWaitShutdown ==
    /\ mgr.pc = "wait"
    /\ shutdown_event
    /\ mgr' = [mgr EXCEPT !.pc = "stopped"]
    /\ UNCHANGED <<dbvars, robots, lidar_pc, lifespan, tasks_history, robot_movement,
                   redis, published, task_updates, shutdown_event, active_sessions,
                   link_pc, link, mon_pc, epoch, budget>>

\* lines 386-393: the supervisor's task is cancelled while it awaits
\* pub_robot_status, which is suspended at a connect, a receive or a wait
ManagerCancelled(fault) ==
    /\ mgr.pc = "running"
    /\ link_pc \in {"connecting", "recv", "reconnect_wait", "sleep"}
    /\ link_pc' = "idle"
    /\ link' = LinkLocals
    /\ mgr' = [mgr EXCEPT !.pc = "stopped"]
    /\ IF mgr.robot_id \in DOMAIN active_sessions /\ ~DbFails(fault, 1)
       THEN /\ robot_sessions' = end_robot_session(robot_sessions, mgr.robot_id,
                                                   <<"task_cancelled">>, now).rows
            /\ active_sessions' = PopSession(active_sessions, mgr.robot_id)
       ELSE UNCHANGED <<robot_sessions, active_sessions>>
    /\ UNCHANGED <<now, db_call, robots, lidar_pc, lifespan, tasks_history,
                   robot_movement, redis, published, task_updates, shutdown_event,
                   mon_pc, epoch, budget>>

\* ---- lifespan (fastapi_edge.py) and cleanup_active_sessions
\* fastapi_edge.py lines 60-63 and redis_server.py lines 418-423: the flag is
\* set and cleanup_active_sessions takes its list of the active sessions
LifespanShutdown ==
    /\ lifespan.pc = "serving"
    /\ shutdown_event' = TRUE
    /\ lifespan' = IF DOMAIN active_sessions = {}
                   THEN [pc |-> "close", todo |-> {}]
                   ELSE [pc |-> "cleanup", todo |-> DOMAIN active_sessions]
    /\ UNCHANGED <<dbvars, robots, lidar_pc, tasks_history, robot_movement, redis,
                   published, task_updates, active_sessions, mgr, link_pc, link,
                   mon_pc, epoch, budget>>

\* lines 423-430: one session of the list is ended, an exception is only
\* printed; after the last one active_sessions.clear()
cleanup_active_sessions(fault) ==
    /\ lifespan.pc = "cleanup"
    /\ \E r \in lifespan.todo :
        LET todo == lifespan.todo \ {r} IN
        /\ robot_sessions' =
              IF DbFails(fault, 1) THEN robot_sessions
              ELSE end_robot_session(robot_sessions, r, <<"server_shutdown">>, now).rows
        /\ lifespan' = [pc |-> IF todo = {} THEN "close" ELSE "cleanup", todo |-> todo]
        /\ active_sessions' = IF todo = {} THEN <<>> ELSE active_sessions
    /\ UNCHANGED <<now, db_call, robots, lidar_pc, tasks_history, robot_movement,
                   redis, published, task_updates, shutdown_event, mgr, link_pc, link,
                   mon_pc, epoch, budget>>

\* fastapi_edge.py lines 65-75: the only background task, init_redis, is done
\* long ago; close_postgres() closes the pool, after which no database call
\* succeeds
close_postgres ==
    /\ lifespan.pc = "close"
    /\ lifespan' = [lifespan EXCEPT !.pc = "done"]
    /\ UNCHANGED <<dbvars, robots, lidar_pc, tasks_history, robot_movement, redis,
                   published, task_updates, shutdown_event, active_sessions, mgr,
                   link_pc, link, mon_pc, epoch, budget>>

DispatchKeys == {{"robot:current_task_id"}, {RobotTaskKey},
                 {"robot:current_task_id", RobotTaskKey}}

\* the steps of pub_robot_status
LinkStep ==
    \/ \E fault \in Faults : LinkOuterCheck(fault)
    \/ \E fault \in Faults : LinkConnected(fault)
    \/ \E e \in TransportErrors : LinkConnectFailed(e)
    \/ LinkInnerCheck
    \/ LinkRecvTimeout
    \/ \E f \in LinkFrames, fault \in Faults : LinkFrame(f, fault)
    \/ \E e \in RecvErrors, fault \in Faults : LinkConnectionLost(e, fault)
    \/ LinkReconnectTimeout
    \/ \E fault \in Faults : LinkReconnectShutdown(fault)
    \/ LinkSleepDone

\* the steps of pub_robot_status_manager
ManagerStep ==
    \/ ManagerLookup
    \/ ManagerCheck
    \/ ManagerLinkReturned
    \/ ManagerLinkCrashed
    \/ ManagerWaitTimeout
    \/ ManagerWaitShutdown

\* the steps of monitor_planning_state
MonitorStep ==
    \/ MonitorConnect
    \/ \E data \in PlanningFrames \cup NotJsonFrames : MonitorFrame(data)

\* the steps of pub_lidar_points
LidarStep ==
    \/ LidarConnect
    \/ LidarFrame

\* the steps of the lifespan's shutdown
LifespanStep ==
    \/ LifespanShutdown
    \/ \E fault \in Faults : cleanup_active_sessions(fault)
    \/ close_postgres

\* the whole program: the three tasks init_redis starts, the lifespan, and
\* their environment
Next ==
    \/ Shutdown
    \/ \E keys \in DispatchKeys : Dispatch(keys)
    \/ MonitorStep
    \/ LidarStep
    \/ LinkStep
    \/ ManagerStep
    \/ \E fault \in Faults : ManagerCancelled(fault)
    \/ LifespanStep

Spec == Init /\ [][Next]_vars

\* the supervised telemetry link alone: pub_robot_status_manager and
\* pub_robot_status, with every frame, error and store fault
NextLink ==
    \/ Shutdown
    \/ Dispatch({RobotTaskKey})
    \/ LinkStep
    \/ ManagerStep

SpecLink == Init /\ [][NextLink]_vars

\* the supervised telemetry link in its nominal environment: both stores work
\* and every frame is well formed, so that no exception other than a transport
\* error arises, pub_robot_status never raises and is never restarted
NextLinkOk ==
    \/ Shutdown
    \/ Dispatch({RobotTaskKey})
    \/ LinkOuterCheck("none")
    \/ LinkConnected("none")
    \/ \E e \in TransportErrors : LinkConnectFailed(e)
    \/ LinkInnerCheck
    \/ LinkRecvTimeout
    \/ \E f \in LinkFrames \ MalformedFrames : LinkFrame(f, "none")
    \/ \E e \in RecvErrors : LinkConnectionLost(e, "none")
    \/ LinkReconnectTimeout
    \/ LinkReconnectShutdown("none")
    \/ ManagerLookup
    \/ ManagerCheck
    \/ ManagerLinkReturned

SpecLinkOk == Init /\ [][NextLinkOk]_vars

\* the planning-state monitor alone, with the dispatcher
NextPlan ==
    \/ \E keys \in DispatchKeys : Dispatch(keys)
    \/ MonitorStep

SpecPlan == Init /\ [][NextPlan]_vars

\* a long outage of the database: sessions start, the connection drops and
\* end_robot_session may fail, so that the supervisor restarts the link often
InitRestart ==
    /\ InitTables
    /\ InitTasks
    /\ robots = {[sn |-> SerialNumber, id |-> MonitoredRobot]}
    /\ budget = MaxRestartEvents

NextRestart ==
    \/ Shutdown
    \/ ManagerStep
    \/ LinkOuterCheck("none")
    \/ LinkConnected("none")
    \/ LinkInnerCheck
    \/ \E fault \in {"none", "db"} : LinkConnectionLost("OSError", fault)
    \/ LinkReconnectTimeout
    \/ LinkReconnectShutdown("none")

SpecRestart == InitRestart /\ [][NextRestart]_vars

\* the process shuts down: by a signal, or by the lifespan, which cleans up,
\* closes the pool and lets the event loop cancel the tasks still running.
\* Both stores work, the database until its pool is closed.
FaultsNow == IF lifespan.pc = "done" THEN {"db"} ELSE {"none"}

InitShutdown ==
    /\ InitTables
    /\ InitTasks
    /\ robots = {[sn |-> SerialNumber, id |-> MonitoredRobot]}
    /\ budget = MaxEvents

NextShutdown ==
    \/ Shutdown
    \/ LifespanShutdown
    \/ cleanup_active_sessions("none")
    \/ close_postgres
    \/ lifespan.pc = "done" /\ ManagerCancelled("db")
    \/ \E fault \in FaultsNow : LinkOuterCheck(fault)
    \/ \E fault \in FaultsNow : LinkConnected(fault)
    \/ \E e \in TransportErrors : LinkConnectFailed(e)
    \/ LinkInnerCheck
    \/ LinkRecvTimeout
    \/ \E f \in LinkFrames, fault \in FaultsNow : LinkFrame(f, fault)
    \/ \E e \in RecvErrors, fault \in FaultsNow : LinkConnectionLost(e, fault)
    \/ LinkReconnectTimeout
    \/ \E fault \in FaultsNow : LinkReconnectShutdown(fault)
    \/ LinkSleepDone
    \/ ManagerLookup
    \/ ManagerCheck
    \/ ManagerLinkReturned
    \/ ManagerLinkCrashed

SpecShutdown == InitShutdown /\ [][NextShutdown]_vars

\* the three monitor tasks under a scheduler that runs every task that can
\* run: both stores work, every frame is well formed, a receive delivers a
\* frame or (where the code sets a timeout) times out
LinkLive ==
    \/ LinkOuterCheck("none")
    \/ LinkConnected("none")
    \/ \E e \in TransportErrors : LinkConnectFailed(e)
    \/ LinkInnerCheck
    \/ LinkRecvTimeout
    \/ \E f \in BatteryFrames \cup PoseFrames : LinkFrame(f, "none")
    \/ LinkReconnectTimeout
    \/ LinkReconnectShutdown("none")

ManagerLive ==
    \/ ManagerLookup
    \/ ManagerCheck
    \/ ManagerLinkReturned

NextLive ==
    \/ Shutdown
    \/ MonitorStep
    \/ LidarStep
    \/ LinkLive
    \/ ManagerLive

SpecLive ==
    /\ InitShutdown
    /\ [][NextLive]_vars
    /\ WF_vars(LinkLive)
    /\ WF_vars(ManagerLive)
    /\ WF_vars(MonitorStep)
    /\ WF_vars(LidarStep)

\* the two tasks that receive the robot's planning-state frames, running
\* concurrently: monitor_planning_state and the supervised pub_robot_status,
\* with the dispatcher; both stores work
NextTasks ==
    \/ \E keys \in DispatchKeys : Dispatch(keys)
    \/ MonitorStep
    \/ ManagerLookup
    \/ ManagerCheck
    \/ LinkOuterCheck("none")
    \/ LinkConnected("none")
    \/ LinkInnerCheck
    \/ LinkRecvTimeout
    \/ \E f \in PlanningFrames : LinkFrame(f, "none")
    \/ \E e \in RecvErrors : LinkConnectionLost(e, "none")
    \/ LinkReconnectTimeout

SpecTasks == InitShutdown /\ [][NextTasks]_vars

\* ------------------------------------------------------------ claims C1-C3
\* the robot's latest row is an online row: a session was started and not ended
OpenSession(rows, r) ==
    LET S == {i \in 1..Len(rows) : rows[i].robot_id = r} IN
    S # {} /\ rows[CHOOSE i \in S : \A j \in S : j <= i].status = "online"

\* this step is a call end_robot_session(r, ...)
IsEndCall(r) ==
    /\ db_call'.flip # db_call.flip
    /\ db_call'.op = "end"
    /\ db_call'.robot_id = r

\* C1: in every reachable state the table holds at most one row with
\* status = 'online' per robot_id.
C1_AtMostOneOnlineRow ==
    \A r \in Robots : Cardinality(OnlineRows(robot_sessions, r)) <= 1

\* C2: end_robot_session for a robot with no open session returns None and
\* leaves the table unchanged.
C2_EndWithoutOpenSessionIsNoop ==
    [][\A r \in Robots :
        (IsEndCall(r) /\ ~OpenSession(robot_sessions, r))
            => (db_call'.ret = None /\ robot_sessions' = robot_sessions)]_vars

\* C3: end_robot_session called twice for a robot with no start_robot_session
\* in between: the second call returns None and writes no row.
C3_EndIsIdempotent ==
    [][\A r \in Robots :
        (IsEndCall(r) /\ db_call.last[r] = "end")
            => (db_call'.ret = None /\ robot_sessions' = robot_sessions)]_vars

\* ----------------------------------------------------------- claims C4-C10
\* C4: the first /tracked_pose frame processed after each successful connect
\* is recorded with distance 0, whatever poses came before the disconnect.
C4_FirstSampleOfEpochHasZeroDistance ==
    epoch.samples = 1 => robot_movement[Len(robot_movement)].distance = 0

Terminal == {"completed", "failed", "cancelled"}

\* C5: once a task has had its update_task_status(task, 'completed') call and
\* its completion event, a further succeeded event causes no more calls and
\* publishes nothing more for it.
C5_CompletedOnce ==
    [][\A t \in TaskIds :
        task_updates[<<t, "completed">>] = 1 =>
            /\ \A st \in Terminal : task_updates'[<<t, st>>] = task_updates[<<t, st>>]
            /\ published'["robot:task_completed"] # published["robot:task_completed"]
                   => published'["robot:task_completed"].last[1].task_id # t]_vars

\* C6: a task's terminal status is final: once completed, failed or cancelled,
\* no later planning-state event changes the task's status.
C6_TerminalStatusIsFinal ==
    [][\A t \in TaskIds :
        tasks_history[t].status \in Terminal
            => tasks_history'[t].status = tasks_history[t].status]_vars

\* min(5 * n, 60) as the claim spells it out
C7_ExpectedWait(n) ==
    CASE n \in 1..5 -> <<5, 10, 15, 20, 25>>[n]
      [] n >= 12 -> 60
      [] OTHER -> 5 * n

\* C7: every restart raises restart_count by exactly 1 and waits
\* min(5 * restart_count, 60) seconds: 5, 10, 15, 20, 25 for counts 1..5 and
\* 60 for every count from 12 on.
C7_RestartBackoff ==
    [][(mgr'.restart_count # mgr.restart_count \/ (mgr'.pc = "wait" /\ mgr.pc # "wait"))
        => /\ mgr'.restart_count = mgr.restart_count + 1
           /\ mgr'.wait_time = C7_ExpectedWait(mgr'.restart_count)]_vars

C7_Witness ==
    mgr.pc = "wait" /\ mgr.restart_count = 13 /\ mgr.wait_time = 60

\* the handler of transport error e ran to its end
C8_Handled(e) ==
    /\ \E fault \in Faults : LinkConnectionLost(e, fault)
    /\ link_pc' # "raised"

\* C8: when an open connection with an open session fails with a transport
\* error, the handler appends one offline row whose note names the error type,
\* sets robot:status to offline and publishes an offline snapshot on
\* robot:status, all before it waits to reconnect; and the session id held
\* after the next successful connect differs from the lost one.
C8_TransportErrorEndsSession ==
    /\ [][\A e \in RecvErrors :
            C8_Handled(e) =>
                LET n == Len(robot_sessions)
                    row == robot_sessions'[n + 1]
                IN  /\ link.session_id # None
                    /\ Len(robot_sessions') = n + 1
                    /\ SubSeq(robot_sessions', 1, n) = robot_sessions
                    /\ row.status = "offline"
                    /\ row.robot_id = mgr.robot_id
                    /\ \E k \in DOMAIN row.notes : row.notes[k] = e
                    /\ redis'["robot:status"] = "offline"
                    /\ published'["robot:status"].count
                           = published["robot:status"].count + 1
                    /\ published'["robot:status"].last[1].status = "offline"
                    /\ link'.session_id = None
                    /\ link_pc' \in {"reconnect_wait", "outer_check"}]_vars
    /\ [](link_pc \in {"inner_check", "recv"}
            => /\ link.session_id # None
               /\ link.session_id # epoch.lost_session
               /\ \E i \in 1..Len(robot_sessions) :
                    /\ robot_sessions[i].id = link.session_id
                    /\ robot_sessions[i].status = "online")

C8_Witness ==
    /\ link_pc = "recv"
    /\ epoch.lost_session # None
    /\ link.session_id > epoch.lost_session
    /\ published["robot:status"].count >= 1
    /\ \E i \in 1..Len(robot_sessions) :
        /\ robot_sessions[i].status = "offline"
        /\ robot_sessions[i].notes = <<"Disconnected", "Connection_lost", "OSError">>

\* C9: during one outage the wait before the n-th consecutive reconnect
\* attempt is min(5 * n, 60) seconds.
C9_ReconnectBackoffEscalates ==
    link_pc = "reconnect_wait"
        => link.reconnect_delay = (IF 5 * epoch.attempts < 60
                                   THEN 5 * epoch.attempts ELSE 60)

\* C10: a malformed frame is dropped: the receive loop goes on with the same
\* connection, the session stays open and no row is written.
C10_MalformedFrameIsDropped ==
    [][\A f \in MalformedFrames :
        LinkFrame(f, "none") =>
            /\ link_pc' = "inner_check"
            /\ robot_sessions' = robot_sessions
            /\ link'.session_id = link.session_id
            /\ active_sessions' = active_sessions]_vars

\* ---------------------------------------------------------- claims C11-C20
\* a database or broker call made while this frame is handled fails
C11_StoreCallFailed(f, fault) ==
    ProcessFrame(LinkState, f, fault, mgr.robot_id, now).exc
        \in {"PostgresError", "RedisError"}

\* C11: a failing database or broker call made while a frame is handled does
\* not abort the telemetry loop: the connection and the session stay open (no
\* session row is written, the session id is kept) and the loop goes on to
\* receive the next frame.
C11_StoreFailureKeepsLoop ==
    [][\A f \in LinkFrames \ MalformedFrames, fault \in Faults :
        (LinkFrame(f, fault) /\ C11_StoreCallFailed(f, fault)) =>
            /\ link_pc' = "inner_check"
            /\ robot_sessions' = robot_sessions
            /\ link'.session_id = link.session_id
            /\ active_sessions' = active_sessions]_vars

\* C12: when the serial number resolves to no robot id, the supervisor stops
\* without ever calling pub_robot_status: no connection, no session row, no
\* restart and no wait.
C12_UnknownRobotNeverStarts ==
    get_robot_id_by_sn(robots, SerialNumber) = None =>
        /\ mgr.pc \in {"lookup", "stopped"}
        /\ link_pc = "idle"
        /\ epoch.n = 0 /\ epoch.attempts = 0
        /\ robot_sessions = <<>>
        /\ active_sessions = <<>>
        /\ mgr.restart_count = 0
        /\ mgr.wait_time = None

C12_Witness ==
    /\ get_robot_id_by_sn(robots, SerialNumber) = None
    /\ mgr.pc = "stopped"
    /\ ~shutdown_event

\* the supervisor has stopped after the shutdown flag was set
C13_Stopped == mgr.pc = "stopped" /\ shutdown_event

\* C13: once pub_robot_status_manager has stopped on shutdown, the robot has
\* no open session (its latest session row, if any, is an offline row) and
\* active_sessions has no entry for it; and the shutdown path of
\* pub_robot_status ends an open session with reason server_shutdown.
C13_ShutdownEndsSession ==
    /\ [](C13_Stopped =>
            /\ ~OpenSession(robot_sessions, mgr.robot_id)
            /\ mgr.robot_id \notin DOMAIN active_sessions)
    /\ [][(link_pc' = "returned" /\ link_pc # "returned" /\ link.session_id # None) =>
            /\ Len(robot_sessions') = Len(robot_sessions) + 1
            /\ robot_sessions'[Len(robot_sessions')].status = "offline"
            /\ robot_sessions'[Len(robot_sessions')].robot_id = mgr.robot_id
            /\ robot_sessions'[Len(robot_sessions')].notes
                   = <<"Disconnected", "server_shutdown">>]_vars

\* C14: after the shutdown flag is set every monitor task ends on its own:
\* the supervisor with pub_robot_status, monitor_planning_state and
\* pub_lidar_points.
C14_MonitorsTerminate ==
    shutdown_event ~> (mgr.pc = "stopped" /\ mon_pc = "done" /\ lidar_pc = "done")

\* C15: pub_robot_status returns to its caller only when the shutdown flag is
\* set: while the flag is clear no step of it (a connection loss, a failed
\* connect, a receive timeout, a frame whose handling raises) makes it return.
C15_ReturnsOnlyOnShutdown ==
    /\ [](link_pc = "returned" => shutdown_event)
    /\ [][~shutdown_event => link_pc' # "returned"]_vars

C15_Witness ==
    /\ link_pc = "returned"
    /\ shutdown_event
    /\ epoch.lost_session # None

\* pub_robot_status stopped other than by returning: an exception escaped it,
\* or it was cancelled
C16_LinkStopped ==
    ManagerLinkCrashed \/ \E fault \in Faults : ManagerCancelled(fault)

\* C16: when the telemetry link stops by an escaping exception or by
\* cancellation while active_sessions holds a session for the robot, the
\* supervisor ends that session before it waits, restarts or stops: an offline
\* row with reason unexpected_error or task_cancelled is written and the
\* active_sessions entry is removed.
C16_SupervisorEndsSession ==
    [][(C16_LinkStopped /\ mgr.robot_id \in DOMAIN active_sessions) =>
        /\ mgr.robot_id \notin DOMAIN active_sessions'
        /\ Len(robot_sessions') = Len(robot_sessions) + 1
        /\ robot_sessions'[Len(robot_sessions')].status = "offline"
        /\ robot_sessions'[Len(robot_sessions')].notes[2]
               \in {"unexpected_error", "task_cancelled"}]_vars

\* C17: a planning-state event of any move_state that arrives while the
\* current-task cross-reference is absent is dropped: update_task_status is
\* not called, no task event is published, and the cross-reference stays
\* absent.
C17_EventWithoutTaskIsDropped ==
    [][\A data \in PlanningFrames :
        (MonitorFrame(data) /\ redis["robot:current_task_id"] = None) =>
            /\ task_updates' = task_updates
            /\ tasks_history' = tasks_history
            /\ published' = published
            /\ redis'["robot:current_task_id"] = None]_vars

C17_Witness ==
    /\ redis["robot:planning_state"] # <<>>
    /\ redis["robot:planning_state"][1].move_state = "succeeded"
    /\ redis["robot:current_task_id"] = None
    /\ \A c \in DOMAIN task_updates : task_updates[c] = 0
    /\ \A c \in Channels : published[c].count = 0

\* C18: every offline row of robot_sessions, written by end_robot_session or
\* by the auto-close of start_robot_session, has a session_duration.
C18_OfflineRowsHaveDuration ==
    \A i \in 1..Len(robot_sessions) :
        robot_sessions[i].status = "offline" => robot_sessions[i].session_duration # None

C18_Witness ==
    /\ \E i \in 1..Len(robot_sessions) :
        /\ robot_sessions[i].notes = <<"Auto-closed: New session started">>
        /\ robot_sessions[i].session_duration = 1
    /\ \E i \in 1..Len(robot_sessions) :
        /\ robot_sessions[i].notes = <<"Disconnected", "normal">>
        /\ robot_sessions[i].session_duration = 2

\* this step is a call start_robot_session(r)
IsStartCall(r) ==
    /\ db_call'.flip # db_call.flip
    /\ db_call'.op = "start"
    /\ db_call'.robot_id = r

\* C19: start_robot_session for a robot with a stale open session first writes
\* an offline row with the auto-closed note and the duration since that
\* session's online timestamp, then the new online row, returns the id of the
\* new online row, which no earlier row has, and leaves the robot with exactly
\* one open session (one online row).
C19_StartAutoClosesStaleSession ==
    [][\A r \in Robots :
        (IsStartCall(r) /\ OpenSession(robot_sessions, r)) =>
            LET n == Len(robot_sessions)
                stale == LastOnline(robot_sessions, r)
            IN  /\ Len(robot_sessions') = n + 2
                /\ SubSeq(robot_sessions', 1, n) = robot_sessions
                /\ robot_sessions'[n + 1].status = "offline"
                /\ robot_sessions'[n + 1].robot_id = r
                /\ robot_sessions'[n + 1].notes = <<"Auto-closed: New session started">>
                /\ robot_sessions'[n + 1].session_duration
                       = now - robot_sessions[stale].timestamp
                /\ robot_sessions'[n + 2].status = "online"
                /\ robot_sessions'[n + 2].robot_id = r
                /\ db_call'.ret = robot_sessions'[n + 2].id
                /\ \A i \in 1..(n + 1) : robot_sessions'[i].id # db_call'.ret
                /\ Cardinality(OnlineRows(robot_sessions', r)) = 1]_vars

\* C20: record_position stores distance 0 when there is no previous pose and
\* otherwise the Euclidean distance d from the previous pose to (x, y), here
\* in thousandths rounded down: d^2 <= 10^6 * ((x - prev_x)^2 + (y - prev_y)^2)
\* < (d + 1)^2; from (0, 0) to (3, 4) it is 5, and from p to p it is 0.
C20_DistanceIsEuclidean ==
    \A i \in 1..Len(robot_movement) :
        LET m == robot_movement[i]
            prev == link.prev_pose
            d == m.distance
        IN  IF prev = <<>> THEN d = 0
            ELSE LET sq == (m.x - prev[1]) * (m.x - prev[1])
                             + (m.y - prev[2]) * (m.y - prev[2])
                 IN  /\ d >= 0
                     /\ d * d <= sq * DistanceScale * DistanceScale
                     /\ (d + 1) * (d + 1) > sq * DistanceScale * DistanceScale
                     /\ (prev = <<0, 0>> /\ m.x = 3 /\ m.y = 4) => d = 5 * DistanceScale
                     /\ prev = <<m.x, m.y>> => d = 0

C20_Witness ==
    /\ link.prev_pose = <<0, 0>>
    /\ robot_movement # <<>>
    /\ robot_movement[1].x = 3 /\ robot_movement[1].y = 4
    /\ robot_movement[1].distance = 5 * DistanceScale

\* ---------------------------------------------------------- claims C21-C28
\* the planning-state events with move_state = "moving"
C21_MovingFrames == {f \in PlanningFrames : f.move_state = "moving"}

\* C21: a planning-state event with move_state = moving, handled by either
\* task, writes no task status, publishes no task event and leaves the
\* current-task cross-references as they are; handle_planning_state only
\* updates the live keys robot:planning_state, robot:status and robot:state.
C21_MovingOnlyUpdatesLiveKeys ==
    [][\A f \in C21_MovingFrames :
        (MonitorFrame(f) \/ LinkFrame(f, "none")) =>
            /\ tasks_history' = tasks_history
            /\ task_updates' = task_updates
            /\ published' = published
            /\ \A k \in RedisKeys \ {"robot:planning_state", "robot:status", "robot:state"} :
                  redis'[k] = redis[k]
            /\ (MonitorFrame(f) /\ redis["robot:current_task_id"] # None) =>
                  redis'["robot:status"] = "active" /\ redis'["robot:state"] = "moving"
            /\ LinkFrame(f, "none") => redis' = redis]_vars

C21_Witness ==
    /\ redis["robot:state"] = "moving"
    /\ redis["robot:status"] = "active"
    /\ redis["robot:current_task_id"] \in TaskIds
    /\ tasks_history[redis["robot:current_task_id"]].status = "in_progress"
    /\ \A c \in DOMAIN task_updates : task_updates[c] = 0
    /\ \A c \in Channels : published[c].count = 0

\* C22: a receive of pub_robot_status that times out changes nothing: the
\* session stays open and in active_sessions, the previous pose and the
\* live-status snapshot are kept, no table, key or channel is written, and the
\* loop checks the shutdown flag next.
C22_RecvTimeoutChangesNothing ==
    [][LinkRecvTimeout =>
        /\ link' = link
        /\ link.session_id # None
        /\ active_sessions' = active_sessions
        /\ mgr.robot_id \in DOMAIN active_sessions
        /\ robot_sessions' = robot_sessions
        /\ robot_movement' = robot_movement
        /\ tasks_history' = tasks_history
        /\ task_updates' = task_updates
        /\ redis' = redis
        /\ published' = published
        /\ link_pc' = "inner_check"]_vars

C22_Witness ==
    /\ epoch.timed_out
    /\ link_pc = "inner_check"
    /\ link.session_id # None
    /\ link.prev_pose # <<>>
    /\ link.compile_list.pose # <<>>

\* C23: with monitor_planning_state and pub_robot_status both receiving the
\* robot's planning-state frames, a terminal event for an active task makes
\* at most one update_task_status call in total.  Stated for the events
\* failed and cancelled, after which each handler clears its cross-reference,
\* so that a task never sees two of them from one handler.
C23_OneWriterPerTerminalEvent ==
    \A t \in TaskIds, st \in {"failed", "cancelled"} : task_updates[<<t, st>>] <= 1

\* the rows of robot r with this status
C24_Rows(r, status) ==
    {i \in 1..Len(robot_sessions) :
        robot_sessions[i].robot_id = r /\ robot_sessions[i].status = status}

\* C24: each opened session is closed at most once: for every robot the
\* offline rows never outnumber the online rows, also while
\* cleanup_active_sessions, the shutdown path of pub_robot_status and the
\* supervisor's cancellation path end sessions of the same robot.
C24_ClosedAtMostOnce ==
    \A r \in Robots :
        Cardinality(C24_Rows(r, "offline")) <= Cardinality(C24_Rows(r, "online"))

\* C25: start_robot_session for a robot whose previous session was ended by
\* end_robot_session writes the new online row and nothing else; it writes
\* the auto-closed row only when the previous session was left open.
C25_NoAutoCloseAfterEnd ==
    [][\A r \in Robots :
        IsStartCall(r) =>
            /\ db_call.last[r] = "end" =>
                  /\ Len(robot_sessions') = Len(robot_sessions) + 1
                  /\ robot_sessions'[Len(robot_sessions')].status = "online"
            /\ Len(robot_sessions') = Len(robot_sessions) + 2 =>
                  OpenSession(robot_sessions, r)]_vars

\* C26: a snapshot that pub_robot_status publishes on robot:status or
\* robot:pose while it holds a session does not carry status offline.
C26_NoOfflineSnapshotWhileOnline ==
    [][\A ch \in {"robot:status", "robot:pose"} :
        (published'[ch] # published[ch] /\ link'.session_id # None)
            => published'[ch].last[1].status # "offline"]_vars

\* C27: once the shutdown flag is set no session is started: no step taken
\* with the flag set adds an online row.
C27_NoSessionAfterShutdown ==
    [][shutdown_event =>
        \A r \in Robots : OnlineRows(robot_sessions', r) = OnlineRows(robot_sessions, r)]_vars

\* pub_robot_status has marked the robot offline after a connection loss and
\* has not connected again
C28_Offline ==
    /\ mgr.pc = "running"
    /\ epoch.lost_session # None
    /\ link.session_id = None
    /\ link_pc \in {"reconnect_wait", "outer_check", "connecting"}

\* C28: from the offline mark after a connection loss until the next
\* successful connect the key robot:status stays offline, whatever
\* monitor_planning_state does meanwhile.
C28_StatusStaysOffline ==
    C28_Offline => redis["robot:status"] = "offline"

====
